---- MODULE Spec2Model ----
(***************************************************************************)
(* A model of ca_funcs.py: convolution-based cellular automata.            *)
(*                                                                         *)
(* Every function of the file is a stateless transform, so each            *)
(* specification below draws one call (the function and its arguments) in  *)
(* its initial state and has one action per function, which runs the whole *)
(* function body and stores what it returned or raised.                    *)
(*                                                                         *)
(* Arrays and tensors are nested sequences.  TLA+ sequences are indexed    *)
(* from 1, the source from 0: source index i is model index i+1.           *)
(***************************************************************************)
EXTENDS Integers, Sequences, FiniteSets, TLC

VARIABLES call, ret

vars == <<call, ret>>

(***************************************************************************)
(* Bounds of the model.                                                    *)
(***************************************************************************)
\* largest height and width of an image given to periodic_padding
MaxDim == 3
\* largest padding given to periodic_padding (0 and values above the image
\* size are included so that the slices of the source clamp)
MaxPad == 4
\* largest number of images in a stack
MaxBatch == 2

Pending == [status |-> "pending"]

Returned(v) == [status |-> "returned", value |-> v]

Raised(e, done) == [status |-> "raised", exc |-> e, computed |-> done]

(***************************************************************************)
(* Python / numpy / tensorflow primitives used by the source.              *)
(***************************************************************************)
\* TLC evaluates a function expression [x \in S |-> e] anew at every
\* application.  Eager(f) is the same sequence f, written out once.
Eager(f) == f \o <<>>

Min(a, b) == IF a < b THEN a ELSE b

Max(a, b) == IF a > b THEN a ELSE b

\* s[start:] of Python: a negative start counts from the end, and the bound
\* is clamped to the sequence.  Python evaluates -0 to 0, so s[-0:] is all of s.
SliceFrom(s, start) ==
    LET n == Len(s)
        b == IF start < 0 THEN Max(n + start, 0) ELSE Min(start, n)
    IN  SubSeq(s, b + 1, n)

\* s[:stop] of Python
SliceTo(s, stop) ==
    LET n == Len(s)
        e == IF stop < 0 THEN Max(n + stop, 0) ELSE Min(stop, n)
    IN  SubSeq(s, 1, e)

\* tf.concat([a, b, c], axis=0) of matrices: the rows one after the other
ConcatRows(a, b, c) == a \o b \o c

\* tf.concat([a, b, c], axis=1) of matrices with the same number of rows
ConcatCols(a, b, c) == Eager([r \in 1..Len(b) |-> a[r] \o b[r] \o c[r]])

\* the 2-D branch of periodic_padding, with the upper and lower pads exchanged
periodic_padding_2d_swapped(image, padding) ==
    LET upper_pad == SliceTo(image, padding)
        lower_pad == SliceFrom(image, -padding)
        partial_image == ConcatRows(upper_pad, image, lower_pad)
        left_pad == [r \in 1..Len(partial_image) |-> SliceFrom(partial_image[r], -padding)]
        right_pad == [r \in 1..Len(partial_image) |-> SliceTo(partial_image[r], padding)]
    IN  ConcatCols(left_pad, partial_image, right_pad)

\* the 2-D branch of periodic_padding
periodic_padding_2d(image, padding) ==
    LET upper_pad == SliceFrom(image, -padding)
        lower_pad == SliceTo(image, padding)
        partial_image == ConcatRows(upper_pad, image, lower_pad)
        left_pad == [r \in 1..Len(partial_image) |-> SliceFrom(partial_image[r], -padding)]
        right_pad == [r \in 1..Len(partial_image) |-> SliceTo(partial_image[r], padding)]
    IN  ConcatCols(left_pad, partial_image, right_pad)

\* the 3-D branch of periodic_padding: the slices and concatenations act on
\* axes 1 and 2, that is on every element of the batch axis separately
periodic_padding_3d(image, padding) ==
    Eager([m \in 1..Len(image) |->
        LET upper_pad == SliceFrom(image[m], -padding)
            lower_pad == SliceTo(image[m], padding)
            partial_image == ConcatRows(upper_pad, image[m], lower_pad)
            left_pad == [r \in 1..Len(partial_image) |-> SliceFrom(partial_image[r], -padding)]
            right_pad == [r \in 1..Len(partial_image) |-> SliceTo(partial_image[r], padding)]
        IN  ConcatCols(left_pad, partial_image, right_pad)])

\* periodic_padding(image, padding): ndim is len(image.shape).  In the else
\* branch the assertion is on the constant True, so it passes, and the
\* return statement reads a local that was never assigned.
periodic_padding(ndim, image, padding) ==
    IF ndim = 2 THEN Returned(periodic_padding_2d(image, padding))
    ELSE IF ndim = 3 THEN Returned(periodic_padding_3d(image, padding))
    ELSE Raised("UnboundLocalError", {})

(***************************************************************************)
(* Inputs of periodic_padding.  The function moves values without looking  *)
(* at them, so every pixel carries a distinct label, np.arange(M*H*W)      *)
(* reshaped: a pixel in the wrong place shows.                             *)
(***************************************************************************)
Labelled1D(w) == [j \in 1..w |-> j - 1]

Labelled2D(h, w) == [i \in 1..h |-> [j \in 1..w |-> (i - 1) * w + (j - 1)]]

Labelled3D(m, h, w) ==
    [b \in 1..m |-> [i \in 1..h |-> [j \in 1..w |-> ((b - 1) * h + (i - 1)) * w + (j - 1)]]]

PadCalls1D ==
    {[op |-> "periodic_padding", ndim |-> 1, shape |-> <<w>>,
      image |-> Labelled1D(w), padding |-> p] :
        w \in 1..MaxDim, p \in 0..MaxPad}

PadCalls2D ==
    {[op |-> "periodic_padding", ndim |-> 2, shape |-> <<h, w>>,
      image |-> Labelled2D(h, w), padding |-> p] :
        h \in 1..MaxDim, w \in 1..MaxDim, p \in 0..MaxPad}

PadCalls3D ==
    {[op |-> "periodic_padding", ndim |-> 3, shape |-> <<m, h, w>>,
      image |-> Labelled3D(m, h, w), padding |-> p] :
        m \in 1..MaxBatch, h \in 1..MaxDim, w \in 1..MaxDim, p \in 0..MaxPad}

InitPad ==
    /\ \/ call \in PadCalls1D
       \/ call \in PadCalls2D
       \/ call \in PadCalls3D
    /\ ret = Pending

PeriodicPadding ==
    /\ call.op = "periodic_padding"
    /\ ret.status = "pending"
    /\ ret' = periodic_padding(call.ndim, call.image, call.padding)
    /\ UNCHANGED call

NextPad == PeriodicPadding

SpecPad == InitPad /\ [][NextPad]_vars

(***************************************************************************)
(* C3.  periodic_padding wraps the image toroidally: for a 2-D image of    *)
(* height H and width W and a padding p with 1 <= p <= min(H, W) the       *)
(* result is (H+2p) x (W+2p) and result[i][j] = image[(i-p) mod H]         *)
(* [(j-p) mod W]; for a 3-D batch the same holds on the last two axes of   *)
(* every batch element and the batch axis keeps its length and order.      *)
(***************************************************************************)
WrapsToroidally(image, result, H, W, p) ==
    /\ Len(result) = H + 2 * p
    /\ \A i \in 0..(H + 2 * p - 1) :
        /\ Len(result[i + 1]) = W + 2 * p
        /\ \A j \in 0..(W + 2 * p - 1) :
            result[i + 1][j + 1] = image[((i - p) % H) + 1][((j - p) % W) + 1]

PadInRange ==
    /\ call.op = "periodic_padding"
    /\ call.ndim \in {2, 3}
    /\ ret.status # "pending"
    /\ call.padding >= 1
    /\ call.padding <= Min(call.shape[call.ndim - 1], call.shape[call.ndim])

C3_PeriodicPaddingWraps ==
    PadInRange =>
        /\ ret.status = "returned"
        /\ IF call.ndim = 2
           THEN WrapsToroidally(call.image, ret.value,
                                call.shape[1], call.shape[2], call.padding)
           ELSE /\ Len(ret.value) = call.shape[1]
                /\ \A m \in 1..call.shape[1] :
                    WrapsToroidally(call.image[m], ret.value[m],
                                    call.shape[2], call.shape[3], call.padding)

\* a batch of two 2 x 3 images padded by 2 = min(H, W) has been wrapped
C3_Witness ==
    /\ PadInRange
    /\ call.ndim = 3
    /\ call.shape = <<2, 2, 3>>
    /\ call.padding = 2
    /\ ret.status = "returned"

(***************************************************************************)
(* make_table_walk                                                         *)
(***************************************************************************)
\* largest nbins given to make_table_walk
MaxBins == 4

\* the outcomes of np.random.choice(range(n), n, replace=False): the orders
\* of 0..n-1 (for n = 0 the empty array)
random_order(n) ==
    {s \in [1..n -> 0..(n - 1)] : \A a, b \in 1..n : a # b => s[a] # s[b]}

\* np.zeros((rows, cols))
np_zeros(rows, cols) == [r \in 1..rows |-> [c \in 1..cols |-> 0]]

RECURSIVE np_sum(_)
\* np.sum of a vector
np_sum(v) == IF v = <<>> THEN 0 ELSE v[1] + np_sum(Tail(v))

RECURSIVE Ascending(_)
\* the elements of a finite set of integers in increasing order
Ascending(S) ==
    IF S = {} THEN <<>>
    ELSE LET lo == CHOOSE x \in S : \A y \in S : x <= y
         IN  <<lo>> \o Ascending(S \ {lo})

\* np.where(mask)[0] for the mask v == 1: the indices (from 0) where it holds
where_eq1(v) == Ascending({i \in 0..(Len(v) - 1) : v[i + 1] = 1})

\* np.where(~(v == 1))[0]
where_not_eq1(v) == Ascending({i \in 0..(Len(v) - 1) : ~(v[i + 1] = 1)})

\* arr[indices]: numpy indexing of a vector by an array of indices
Take(arr, indices) == [t \in 1..Len(indices) |-> arr[indices[t] + 1]]

\* all_rules[start:, col] = 1
AssignColumnFrom(all_rules, start, col) ==
    [r \in 1..Len(all_rules) |->
        [c \in 1..Len(all_rules[r]) |->
            IF r - 1 >= start /\ c - 1 = col THEN 1 ELSE all_rules[r][c]]]

RECURSIVE WalkLoop(_, _, _, _)
\* for ind in range(len(selection_order)):
\*     all_rules[offset+ind:, selection_order[ind]] = 1
\* from iteration ind on
WalkLoop(all_rules, selection_order, offset, ind) ==
    IF ind >= Len(selection_order) THEN all_rules
    ELSE WalkLoop(AssignColumnFrom(all_rules, offset + ind, selection_order[ind + 1]),
                  selection_order, offset, ind + 1)

\* make_table_walk whose second loop starts at row ind instead of num_on+ind
make_table_walk_no_offset(nbins, known_rule, order_all, order_on, order_off) ==
    LET all_rules == np_zeros(nbins, nbins)
    IN  IF Len(known_rule) = 0
        THEN Returned(WalkLoop(all_rules, order_all, 0, 0))
        ELSE LET num_on == np_sum(known_rule)
                 num_off == nbins - num_on
                 where_on == where_eq1(known_rule)
                 where_off == where_not_eq1(known_rule)
             IN  IF num_on # Len(where_on) \/ num_off # Len(where_off)
                 THEN Raised("AssertionError", {})
                 ELSE Returned(WalkLoop(WalkLoop(all_rules, Take(where_on, order_on), 0, 0),
                                        Take(where_off, order_off), 0, 0))

\* make_table_walk(nbins, known_rule); known_rule is <<>> for the default ''.
\* order_all, order_on and order_off are the three draws of np.random.choice.
make_table_walk(nbins, known_rule, order_all, order_on, order_off) ==
    LET all_rules == np_zeros(nbins, nbins)
    IN  IF Len(known_rule) = 0
        THEN Returned(WalkLoop(all_rules, order_all, 0, 0))
        ELSE LET num_on == np_sum(known_rule)
                 num_off == nbins - num_on
                 where_on == where_eq1(known_rule)
                 where_off == where_not_eq1(known_rule)
             IN  IF num_on # Len(where_on) \/ num_off # Len(where_off)
                 THEN Raised("AssertionError", {})
                 ELSE Returned(WalkLoop(WalkLoop(all_rules, Take(where_on, order_on), 0, 0),
                                        Take(where_off, order_off), num_on, 0))

WalkCalls ==
    {[op |-> "make_table_walk", nbins |-> n, known_rule |-> k] :
        n \in 1..MaxBins, k \in {<<>>}}
    \cup
    UNION {{[op |-> "make_table_walk", nbins |-> n, known_rule |-> k] :
                k \in [1..n -> {0, 1}]} : n \in 1..MaxBins}

InitWalk == call \in WalkCalls /\ ret = Pending

MakeTableWalk ==
    /\ call.op = "make_table_walk"
    /\ ret.status = "pending"
    /\ \E order_all \in random_order(call.nbins) :
        IF Len(call.known_rule) = 0
        THEN ret' = make_table_walk(call.nbins, call.known_rule, order_all, <<>>, <<>>)
        ELSE \E order_on \in random_order(np_sum(call.known_rule)),
                order_off \in random_order(call.nbins - np_sum(call.known_rule)) :
                ret' = make_table_walk(call.nbins, call.known_rule,
                                       order_all, order_on, order_off)
    /\ UNCHANGED call

NextWalk == MakeTableWalk

SpecWalk == InitWalk /\ [][NextWalk]_vars

WalkReturned == call.op = "make_table_walk" /\ ret.status = "returned"

Ones(row) == Cardinality({c \in 1..Len(row) : row[c] = 1})

C6_KnownRuleIsARow ==
    WalkReturned /\ Len(call.known_rule) # 0 =>
        \E r \in 1..call.nbins : ret.value[r] = call.known_rule

(***************************************************************************)
(* float32.  conv_cast turns every array into tf.float32.  A float32 is    *)
(* modelled by the integer x it is Unit times: Unit is 2^25, the inverse   *)
(* of the spacing of float32 between 1/4 and 1/2, where the smallest       *)
(* non-integer weight of the source (1/3) lies.  Integer-valued arrays     *)
(* (images, kernels, biases, activations) are kept in units of 1.  In      *)
(* either unit a float32 is an integer with at most SignificandBits        *)
(* significant bits, and every operation rounds to the nearest such        *)
(* integer, ties to even.                                                  *)
(***************************************************************************)
SignificandBits == 24

Unit == 2 ^ (SignificandBits + 1)

Abs(x) == IF x < 0 THEN -x ELSE x

RECURSIVE BitLen(_)
\* the number of binary digits of x >= 0
BitLen(x) == IF x = 0 THEN 0 ELSE 1 + BitLen(x \div 2)

\* n/d rounded to the nearest integer, ties to even (n >= 0, d > 0)
RoundHalfEven(n, d) ==
    LET f == n \div d
        r == n % d
    IN  IF 2 * r > d \/ (2 * r = d /\ f % 2 = 1) THEN f + 1 ELSE f

\* the float32 nearest to the real x (an integer in the unit in use)
Round24(x) ==
    LET e == BitLen(Abs(x)) - SignificandBits
    IN  IF e <= 0 THEN x
        ELSE LET q == 2 ^ e
             IN  (IF x < 0 THEN -1 ELSE 1) * RoundHalfEven(Abs(x), q) * q

\* conv_cast of the Python number n/d, in units of 1/Unit.  Every non-zero
\* n/d of the source is at least 1/4 in magnitude, so its float32 spacing
\* is a multiple of 1/Unit.  (Python holds n/d as a float64 first; for the
\* numbers of the source the float32 nearest to it is the one nearest to n/d.)
conv_cast_ratio(n, d) ==
    LET e == Max(BitLen((Abs(n) * Unit) \div d) - SignificandBits, 0)
        q == 2 ^ e
    IN  (IF n < 0 THEN -1 ELSE 1) * RoundHalfEven(Abs(n) * Unit, d * q) * q

\* conv_cast of an integer, in units of 1
conv_cast(x) == Round24(x)

\* tf.nn.relu
relu(x) == IF x > 0 THEN x ELSE 0

\* tf.nn.conv2d(input, kernel, strides=[1,1,1,1], padding='VALID') for one
\* input channel and a 3 x 3 x 1 x K kernel: a cross-correlation.  The
\* channel axis of length 1 is left out: input[m][i][j], kernel[a][b][k].
\* The terms are integers far below 2^24, so every float32 sum is exact.
tf_conv2d(input, kernel, K) ==
    [m \in 1..Len(input) |->
        [i \in 1..(Len(input[m]) - 2) |->
            [j \in 1..(Len(input[m][1]) - 2) |->
                [k \in 1..K |->
                      input[m][i][j] * kernel[1][1][k]
                    + input[m][i][j + 1] * kernel[1][2][k]
                    + input[m][i][j + 2] * kernel[1][3][k]
                    + input[m][i + 1][j] * kernel[2][1][k]
                    + input[m][i + 1][j + 1] * kernel[2][2][k]
                    + input[m][i + 1][j + 2] * kernel[2][3][k]
                    + input[m][i + 2][j] * kernel[3][1][k]
                    + input[m][i + 2][j + 1] * kernel[3][2][k]
                    + input[m][i + 2][j + 2] * kernel[3][3][k]]]]]

RECURSIVE tf_squeeze(_, _)
\* tf.squeeze: every axis of length 1 is removed
tf_squeeze(t, shape) ==
    IF shape = <<>> THEN t
    ELSE IF shape[1] = 1 THEN tf_squeeze(t[1], Tail(shape))
    ELSE [x \in 1..shape[1] |-> tf_squeeze(t[x], Tail(shape))]

RECURSIVE DotSequential(_, _, _)
\* the float32 product of a row of integers with a column of weights, every
\* product and every partial sum rounded, from column index k on
DotSequential(row, col, k) ==
    IF k = 0 THEN 0
    ELSE Round24(DotSequential(row, col, k - 1) + Round24(row[k] * col[k]))

RECURSIVE DotExact(_, _, _)
\* the same product without rounding
DotExact(row, col, k) ==
    IF k = 0 THEN 0 ELSE DotExact(row, col, k - 1) + row[k] * col[k]

\* one entry of tf.matmul.  The source does not fix how the kernel
\* accumulates: either every step rounds to float32, or the sum is kept in
\* a wider accumulator and rounded once.
MatMulEntry(row, col, accumulate) ==
    IF accumulate = "float32"
    THEN DotSequential(row, col, Len(row))
    ELSE Round24(DotExact(row, col, Len(row)))

(***************************************************************************)
(* make_glider and make_game_of_life                                       *)
(***************************************************************************)
\* the smallest board make_glider accepts
MinDim == 3

glider_center == << <<0, 1, 0>>, <<0, 0, 1>>, <<1, 1, 1>> >>

\* out_arr = np.zeros(dims); out_arr[ins-1:ins+2, ins-1:ins+2] = center,
\* with ins = floor(dims/2), for a square board of side n
place_center(center, n) ==
    LET ins == n \div 2
    IN  [i \in 1..n |-> [j \in 1..n |->
            IF /\ i - 1 >= ins - 1 /\ i - 1 < ins + 2
               /\ j - 1 >= ins - 1 /\ j - 1 < ins + 2
            THEN center[i - 1 - (ins - 1) + 1][j - 1 - (ins - 1) + 1]
            ELSE 0]]

\* make_glider(dims0) for an integer dims0
make_glider(dims0) ==
    IF dims0 >= MinDim THEN Returned(place_center(glider_center, dims0))
    ELSE Raised("AssertionError", {})

neighborhood_radius == 3

life_pad_size == 1

\* neighbor_filt, middle_filt and np.dstack of the five of them: [a][b][k]
neighbor_filt ==
    [a \in 1..neighborhood_radius |-> [b \in 1..neighborhood_radius |->
        IF a = 2 /\ b = 2 THEN 0 ELSE 1]]

middle_filt ==
    [a \in 1..neighborhood_radius |-> [b \in 1..neighborhood_radius |->
        IF a = 2 /\ b = 2 THEN 1 ELSE 0]]

life_all_filters ==
    [a \in 1..neighborhood_radius |-> [b \in 1..neighborhood_radius |->
        <<middle_filt[a][b], neighbor_filt[a][b], neighbor_filt[a][b],
          neighbor_filt[a][b], neighbor_filt[a][b]>>]]

\* the biases of the four neighbour filters one step late
life_all_biases_late == <<0, 0, -1, -2, -3>>

life_all_biases == <<0, -1, -2, -3, -4>>

total_filters == Len(life_all_biases)

\* wh1_arr before the transpose: two rows of five Python numbers n/d
wh1_rows ==
    << << <<0, 1>>, <<0, 1>>, <<4, 3>>, <<-8, 3>>, <<-1, 3>> >>,
       << <<3, 2>>, <<5, 4>>, <<-5, 1>>, <<-1, 4>>, <<-1, 4>> >> >>

bh1_arr == << <<-1, 3>>, <<-7, 4>> >>

\* wh1 = conv_cast(wh1_arr), by column c of the transposed array: wh1[c][k]
wh1 ==
    [c \in 1..2 |-> [k \in 1..total_filters |->
        conv_cast_ratio(wh1_rows[c][k][1], wh1_rows[c][k][2])]]

bh1 == [c \in 1..2 |-> conv_cast_ratio(bh1_arr[c][1], bh1_arr[c][2])]

\* kernel = conv_cast(all_filters)[:,:,tf.newaxis,:]
life_kernel ==
    [a \in 1..neighborhood_radius |-> [b \in 1..neighborhood_radius |->
        [k \in 1..total_filters |-> conv_cast(life_all_filters[a][b][k])]]]

life_biases == [k \in 1..total_filters |-> conv_cast(life_all_biases[k])]

\* my_ca of make_game_of_life, applied to a 3-D stack of float32 images
life_my_ca(image_stack, accumulate) ==
    LET M == Len(image_stack)
        input_padded == periodic_padding_3d(image_stack, life_pad_size)
        conv_image == tf_conv2d(input_padded, life_kernel, total_filters)
        H == Len(conv_image[1])
        W == Len(conv_image[1][1])
        activation_image ==
            [m \in 1..M |-> [i \in 1..H |-> [j \in 1..W |-> [k \in 1..total_filters |->
                relu(conv_image[m][i][j][k] + life_biases[k])]]]]
        activated_flat ==
            [f \in 1..(M * H * W) |->
                Eager(activation_image[((f - 1) \div (H * W)) + 1]
                                      [(((f - 1) \div W) % H) + 1]
                                      [((f - 1) % W) + 1])]
        h1 == [f \in 1..(M * H * W) |-> [c \in 1..2 |->
                relu(Round24(MatMulEntry(activated_flat[f], wh1[c], accumulate) + bh1[c]))]]
        scores == [f \in 1..(M * H * W) |-> Round24(h1[f][1] + h1[f][2])]
        next_states ==
            [m \in 1..M |-> [i \in 1..H |-> [j \in 1..W |->
                <<scores[((m - 1) * H + (i - 1)) * W + (j - 1) + 1]>>]]]
    IN  Returned(tf_squeeze(next_states, <<M, H, W, 1>>))

(***************************************************************************)
(* Boards and stacks.  Up to side MinDim every binary board is drawn.  A   *)
(* stack of one image holds any board of its family; a stack of several    *)
(* images is made of the empty board and of the glider board (below        *)
(* MinDim, where no glider fits, of the empty and the full board).         *)
(***************************************************************************)
\* largest side of a board given to the Game of Life
MaxSide == 4

Patterns == [1..3 -> [1..3 -> {0, 1}]]

AllBinary(n) == [1..n -> [1..n -> {0, 1}]]

Pool(n) ==
    {np_zeros(n, n)} \cup
    (IF n >= MinDim THEN {make_glider(n).value}
     ELSE {[i \in 1..n |-> [j \in 1..n |-> 1]]})

Stacks(boards, n, m) ==
    IF m = 1 THEN {<<b>> : b \in boards} ELSE [1..m -> Pool(n)]

\* above MinDim a board of the Game of Life is empty but for a 3 x 3
\* pattern at its centre, any of the 512, placed as make_glider places the
\* glider
LifeBoards(n) ==
    IF n <= MinDim THEN AllBinary(n) ELSE {place_center(w, n) : w \in Patterns}

LifeCalls ==
    UNION {{[op |-> "game_of_life", shape |-> <<m, n, n>>, image_stack |-> st] :
                st \in Stacks(LifeBoards(n), n, m)} : n \in 1..MaxSide, m \in 1..MaxBatch}

InitLife == call \in LifeCalls /\ ret = Pending

GameOfLifeStep ==
    /\ call.op = "game_of_life"
    /\ ret.status = "pending"
    /\ \E accumulate \in {"float32", "wide"} :
        ret' = life_my_ca(call.image_stack, accumulate)
    /\ UNCHANGED call

NextLife == GameOfLifeStep

SpecLife == InitLife /\ [][NextLife]_vars

RECURSIVE Entry(_, _, _)
\* the entry of a squeezed array that the entry idx of the array of the
\* given shape became
Entry(t, shape, idx) ==
    IF shape = <<>> THEN t
    ELSE IF shape[1] = 1 THEN Entry(t, Tail(shape), Tail(idx))
    ELSE Entry(t[idx[1]], Tail(shape), Tail(idx))

\* the number of live cells among the 8 periodic neighbours of cell (i, j),
\* indices from 0, of an h x w board
LiveNeighbours(board, h, w, i, j) ==
    LET at(di, dj) == board[((i + di) % h) + 1][((j + dj) % w) + 1]
    IN    at(-1, -1) + at(-1, 0) + at(-1, 1)
        + at(0, -1) + at(0, 1)
        + at(1, -1) + at(1, 0) + at(1, 1)

Conway(cell, n) ==
    IF (cell = 1 /\ n \in {2, 3}) \/ (cell = 0 /\ n = 3) THEN 1 ELSE 0

(***************************************************************************)
(* C1.  The step function of make_game_of_life is Conway's Game of Life on *)
(* a torus: for every binary board and every cell, with n the number of    *)
(* live cells among its 8 periodic neighbours, the output cell is 1 if the *)
(* cell is 1 and n is 2 or 3, or the cell is 0 and n is 3, and is 0        *)
(* otherwise; the output is exactly 0.0 or 1.0 in float32.                 *)
(***************************************************************************)
C1_GameOfLifeRule ==
    call.op = "game_of_life" /\ ret.status # "pending" =>
        /\ ret.status = "returned"
        /\ \A m \in 1..call.shape[1], i \in 0..(call.shape[2] - 1),
              j \in 0..(call.shape[3] - 1) :
            Entry(ret.value, call.shape \o <<1>>, <<m, i + 1, j + 1, 1>>)
                = Unit * Conway(call.image_stack[m][i + 1][j + 1],
                                LiveNeighbours(call.image_stack[m],
                                               call.shape[2], call.shape[3], i, j))

\* a step of a board of side 4 has been taken in which a dead corner cell
\* with 3 live neighbours, one of them across both edges, is born
C1_Witness ==
    /\ call.op = "game_of_life"
    /\ ret.status = "returned"
    /\ call.shape = <<1, 4, 4>>
    /\ call.image_stack[1][1][1] = 0
    /\ LiveNeighbours(call.image_stack[1], 4, 4, 0, 0) = 3
    /\ call.image_stack[1][4][4] = 1
    /\ ret.value[1][1] = Unit

(***************************************************************************)
(* all_combinations (utils.py of the repository, which the file imports    *)
(* from).  all_combinations(m, d) is the array of all d-tuples over        *)
(* 0..m-1 in the order of itertools.product, the first entry varying       *)
(* slowest, each reshaped to sqrt(d) x sqrt(d) row by row.                 *)
(***************************************************************************)
all_combinations(m, d) ==
    LET sq == CHOOSE q \in 1..d : q * q = d
    IN  [k \in 1..(m ^ d) |-> [r \in 1..sq |-> [c \in 1..sq |->
            ((k - 1) \div (m ^ (d - 1 - ((r - 1) * sq + (c - 1))))) % m]]]

\* np.transpose(x, (2,1,0)) of an array x[k][r][c]: the result is [a][b][k]
np_transpose_210(x) ==
    Eager([a \in 1..Len(x[1][1]) |-> Eager([b \in 1..Len(x[1]) |->
        Eager([k \in 1..Len(x) |-> x[k][b][a]])])])

\* 1 - np.sum(all_filters, axis=(0,1)) of an array [a][b][k] with a, b in 1..3
OneMinusSumAxes01(f) ==
    Eager([k \in 1..Len(f[1][1]) |->
        1 - (  f[1][1][k] + f[1][2][k] + f[1][3][k]
             + f[2][1][k] + f[2][2][k] + f[2][3][k]
             + f[3][1][k] + f[3][2][k] + f[3][3][k])])

\* np.prod(all_filters.shape[:2])
ProdShape2(f) == Len(f) * Len(f[1])

\* all_filters[all_filters==0] -= amount
SubtractWhereZero(f, amount) ==
    Eager([a \in 1..Len(f) |-> Eager([b \in 1..Len(f[a]) |->
        Eager([k \in 1..Len(f[a][b]) |->
            IF f[a][b][k] = 0 THEN f[a][b][k] - amount ELSE f[a][b][k]])])])

\* conv_cast of an array [a][b][k] of integers
conv_cast3(f) ==
    Eager([a \in 1..Len(f) |-> Eager([b \in 1..Len(f[a]) |->
        Eager([k \in 1..Len(f[a][b]) |-> conv_cast(f[a][b][k])])])])

conv_cast1(v) == Eager([k \in 1..Len(v) |-> conv_cast(v[k])])

RECURSIVE ArgMaxRange(_, _, _)
\* the index of the first largest entry of v among lo..hi (by halves, which
\* keeps the evaluation shallow; of two equal entries the left one wins)
ArgMaxRange(v, lo, hi) ==
    IF lo = hi THEN lo
    ELSE LET mid == (lo + hi) \div 2
             l == ArgMaxRange(v, lo, mid)
             r == ArgMaxRange(v, mid + 1, hi)
         IN  IF v[r] > v[l] THEN r ELSE l

\* tf.argmax(v, axis=-1): the index, from 0, of the first largest entry
tf_argmax(v) == ArgMaxRange(v, 1, Len(v)) - 1

RECURSIVE SumProducts(_, _, _, _)
\* tf.reduce_sum(tf.multiply(v, w), axis=-1) over the entries lo..hi (by
\* halves).  The terms are small integers, so every float32 product and
\* sum is exact in any order.
SumProducts(v, w, lo, hi) ==
    IF lo > hi THEN 0
    ELSE IF lo = hi THEN v[lo] * w[lo]
    ELSE LET mid == (lo + hi) \div 2
         IN  SumProducts(v, w, lo, mid) + SumProducts(v, w, mid + 1, hi)

(***************************************************************************)
(* categorize_images                                                       *)
(***************************************************************************)
cat_pad_size == 1

\* line 183
cat_all_filters_01 == np_transpose_210(all_combinations(2, 9))

\* line 184, with the constant 1 left out
cat_all_biases_no_one == Eager([k \in 1..512 |-> OneMinusSumAxes01(cat_all_filters_01)[k] - 1])

\* line 184
cat_all_biases == OneMinusSumAxes01(cat_all_filters_01)

\* line 185 left out: the zeros of the patterns stay 0
cat_all_filters_unpenalised == cat_all_filters_01

\* line 185
cat_all_filters == SubtractWhereZero(cat_all_filters_01, ProdShape2(cat_all_filters_01))

cat_kernel == conv_cast3(cat_all_filters)

cat_biases == conv_cast1(cat_all_biases)

AssertionMessage == "AssertionError: Specified neighborhood type not implemented"

\* relu(conv_image + biases) for 3-D padded input
Activation(input_padded, kernel, biases) ==
    LET conv_image == tf_conv2d(input_padded, kernel, Len(biases))
    IN  Eager([m \in 1..Len(input_padded) |->
            Eager([i \in 1..(Len(input_padded[m]) - 2) |->
                Eager([j \in 1..(Len(input_padded[m][1]) - 2) |->
                    Eager([k \in 1..Len(biases) |->
                        relu(conv_image[m][i][j][k] + biases[k])])])])])

\* categorize_images(image_stack, neighborhood).  In the else branch the
\* assertion is on the constant True and passes; the next read of
\* all_filters, which only the first branch assigns, raises.
categorize_images(image_stack, neighborhood) ==
    IF neighborhood = "von neumann"
    THEN LET state == [m \in 1..Len(image_stack) |-> [i \in 1..Len(image_stack[m]) |->
                        [j \in 1..Len(image_stack[m][i]) |->
                            conv_cast(image_stack[m][i][j])]]]
             input_padded == periodic_padding_3d(state, cat_pad_size)
             activation_image == Activation(input_padded, cat_kernel, cat_biases)
             indices == [m \in 1..Len(activation_image) |->
                            [i \in 1..Len(activation_image[m]) |->
                                [j \in 1..Len(activation_image[m][i]) |->
                                    tf_argmax(activation_image[m][i][j])]]]
         IN  [status |-> "returned", value |-> indices,
              activation_image |-> activation_image]
    ELSE IF ~TRUE THEN Raised(AssertionMessage, {})
    ELSE Raised("UnboundLocalError", {"state"})

(***************************************************************************)
(* make_ca and the step function my_ca it returns                          *)
(***************************************************************************)
ca_pad_size == 1

\* line 284
ca_all_filters_01 == np_transpose_210(all_combinations(2, 9))

\* line 285
ca_all_biases == OneMinusSumAxes01(ca_all_filters_01)

\* line 286
ca_all_filters == SubtractWhereZero(ca_all_filters_01, ProdShape2(ca_all_filters_01))

ca_kernel == conv_cast3(ca_all_filters)

ca_biases == conv_cast1(ca_all_biases)

\* make_ca(words, symbols, neighborhood): the closure of my_ca.  words is
\* assigned to all_filters and, in the first branch, overwritten.  In the
\* else branch the kernel is built from words and the read of all_biases,
\* which only the first branch assigns, raises.
make_ca(words, symbols, neighborhood) ==
    IF neighborhood = "von neumann"
    THEN [status |-> "made",
          pad_size |-> ca_pad_size,
          kernel |-> ca_kernel,
          biases |-> ca_biases,
          state_assignments |-> conv_cast1(symbols)]
    ELSE IF ~TRUE THEN Raised(AssertionMessage, {})
    ELSE Raised("UnboundLocalError", {"kernel"})

\* my_ca(image_stack) with the variables of the closure
my_ca(closure, image_stack) ==
    LET input_padded == periodic_padding_3d(image_stack, closure.pad_size)
        activation_image == Activation(input_padded, closure.kernel, closure.biases)
        next_states == [m \in 1..Len(activation_image) |->
                           [i \in 1..Len(activation_image[m]) |->
                               [j \in 1..Len(activation_image[m][i]) |->
                                   SumProducts(activation_image[m][i][j],
                                               closure.state_assignments,
                                               1, Len(closure.state_assignments))]]]
    IN  [status |-> "returned", value |-> next_states,
         activation_image |-> activation_image]

(***************************************************************************)
(* Calls of categorize_images and make_ca.                                 *)
(***************************************************************************)
\* largest side of a board given to categorize_images and to my_ca
MaxCaSide == 3

Neighborhoods == {"von neumann", "moore"}

\* the board b of side n moved by dr rows and dc columns on the torus
Roll(b, n, dr, dc) ==
    [i \in 1..n |-> [j \in 1..n |-> b[((i - 1 + dr) % n) + 1][((j - 1 + dc) % n) + 1]]]

RECURSIVE Code(_, _, _)
\* the board of side n read as a binary number, from cell t on
Code(b, n, t) ==
    IF t > n * n THEN 0
    ELSE b[((t - 1) \div n) + 1][((t - 1) % n) + 1] + 2 * Code(b, n, t + 1)

\* one board for every class of boards that are translates of each other on
\* the torus.  The cells of a board see the translates of the board as
\* their neighbourhoods, so with one board of each class every
\* neighbourhood that occurs on some board of side n occurs here: for side
\* 3 these are all 512 patterns.
TranslationClasses(n) ==
    {b \in AllBinary(n) :
        \A dr, dc \in 0..(n - 1) : Code(b, n, 1) <= Code(Roll(b, n, dr, dc), n, 1)}

CaBoards(n) == IF n <= MinDim THEN TranslationClasses(n) ELSE Pool(n)

CaStacks ==
    UNION {Stacks(CaBoards(n), n, m) : n \in 1..MaxCaSide, m \in 1..MaxBatch}

\* rule tables: the 512 patterns in the order of all_combinations or in the
\* opposite order, and the symbols of a rule in the order of the words
ReverseSeq(w) == [t \in 1..Len(w) |-> w[Len(w) + 1 - t]]

WordsProduct == Eager(all_combinations(2, 9))

WordsReversed == Eager(ReverseSeq(WordsProduct))

Words(order) == IF order = "product" THEN WordsProduct ELSE WordsReversed

\* the next state a rule gives to the centre of a 3 x 3 pattern: Conway's
\* rule, or the state of the neighbour to the right (the shift rule)
RuleOf(rule, w) ==
    IF rule = "life"
    THEN Conway(w[2][2], w[1][1] + w[1][2] + w[1][3] + w[2][1] + w[2][3]
                           + w[3][1] + w[3][2] + w[3][3])
    ELSE w[2][3]

Symbols(order, rule) ==
    LET words == Words(order)
    IN  Eager([t \in 1..Len(words) |-> RuleOf(rule, words[t])])

CatCalls ==
    {[op |-> "categorize_images", image_stack |-> st, neighborhood |-> nb] :
        st \in CaStacks, nb \in Neighborhoods}

MakeCaCalls ==
    {[op |-> "make_ca", order |-> o, rule |-> r, neighborhood |-> nb,
      image_stack |-> st] :
        o \in {"product", "reversed"}, r \in {"life", "shift"},
        nb \in Neighborhoods, st \in CaStacks}

InitCa ==
    /\ \/ call \in CatCalls
       \/ call \in MakeCaCalls
    /\ ret = Pending

CategorizeImages ==
    /\ call.op = "categorize_images"
    /\ ret.status = "pending"
    /\ ret' = categorize_images(call.image_stack, call.neighborhood)
    /\ UNCHANGED call

MakeCa ==
    /\ call.op = "make_ca"
    /\ ret.status = "pending"
    /\ ret' = make_ca(Words(call.order), Symbols(call.order, call.rule),
                      call.neighborhood)
    /\ UNCHANGED call

MyCa ==
    /\ call.op = "make_ca"
    /\ ret.status = "made"
    /\ ret' = my_ca(ret, call.image_stack)
    /\ UNCHANGED call

NextCa == CategorizeImages \/ MakeCa \/ MyCa

SpecCa == InitCa /\ [][NextCa]_vars

\* the periodic 3 x 3 neighbourhood of cell (i, j), indices from 0, of an
\* h x w board
Nbhd(board, h, w, i, j) ==
    << <<board[((i - 1) % h) + 1][((j - 1) % w) + 1],
         board[((i - 1) % h) + 1][(j % w) + 1],
         board[((i - 1) % h) + 1][((j + 1) % w) + 1]>>,
       <<board[(i % h) + 1][((j - 1) % w) + 1],
         board[(i % h) + 1][(j % w) + 1],
         board[(i % h) + 1][((j + 1) % w) + 1]>>,
       <<board[((i + 1) % h) + 1][((j - 1) % w) + 1],
         board[((i + 1) % h) + 1][(j % w) + 1],
         board[((i + 1) % h) + 1][((j + 1) % w) + 1]>> >>

\* the cells of a stack: <<m, i, j>>, m from 1, i and j from 0
Cells(stack) ==
    {<<m, i, j>> : m \in 1..Len(stack), i \in 0..(Len(stack[1]) - 1),
                   j \in 0..(Len(stack[1][1]) - 1)}

NbhdOf(stack, c) ==
    Nbhd(stack[c[1]], Len(stack[1]), Len(stack[1][1]), c[2], c[3])

\* the 0/1 pattern filter k of a kernel matches: 1 where the entry is 1
PatternsOf(kernel) ==
    Eager([k \in 1..Len(kernel[1][1]) |->
        << <<IF kernel[1][1][k] = 1 THEN 1 ELSE 0, IF kernel[1][2][k] = 1 THEN 1 ELSE 0,
             IF kernel[1][3][k] = 1 THEN 1 ELSE 0>>,
           <<IF kernel[2][1][k] = 1 THEN 1 ELSE 0, IF kernel[2][2][k] = 1 THEN 1 ELSE 0,
             IF kernel[2][3][k] = 1 THEN 1 ELSE 0>>,
           <<IF kernel[3][1][k] = 1 THEN 1 ELSE 0, IF kernel[3][2][k] = 1 THEN 1 ELSE 0,
             IF kernel[3][3][k] = 1 THEN 1 ELSE 0>> >>])

cat_patterns == PatternsOf(cat_kernel)

ca_patterns == PatternsOf(ca_kernel)

OnesOf(w) ==
    w[1][1] + w[1][2] + w[1][3] + w[2][1] + w[2][2] + w[2][3] + w[3][1] + w[3][2] + w[3][3]

\* the kernel is 1 on the pattern and -9 off it, the bias is 1 minus the
\* number of ones of the pattern, and there are 512 filters
FiltersAsClaimed(kernel, biases, patterns) ==
    /\ Len(biases) = 512
    /\ \A k \in 1..512 :
        /\ \A a, b \in 1..3 : kernel[a][b][k] \in {1, -9}
        /\ biases[k] = 1 - OnesOf(patterns[k])

OneHot(stack, activation_image, patterns) ==
    \A c \in Cells(stack) :
        LET nb == NbhdOf(stack, c)
            act == activation_image[c[1]][c[2] + 1][c[3] + 1]
        IN  /\ \A k \in 1..512 : act[k] = IF patterns[k] = nb THEN 1 ELSE 0
            /\ Cardinality({k \in 1..512 : act[k] = 1}) = 1

CaReturned ==
    call.op \in {"categorize_images", "make_ca"} /\ ret.status = "returned"

(***************************************************************************)
(* C2.  For every rule table given to make_ca(words, symbols), the         *)
(* returned step function maps every cell of a binary grid whose periodic  *)
(* 3 x 3 neighbourhood equals words[i] to symbols[i], whatever the order   *)
(* of the words.                                                           *)
(***************************************************************************)
C2_StepFollowsRuleTable ==
    call.op = "make_ca" /\ ret.status = "returned" =>
        LET words == Words(call.order)
            symbols == Symbols(call.order, call.rule)
        IN  \A c \in Cells(call.image_stack) :
                \A t \in 1..Len(words) :
                    words[t] = NbhdOf(call.image_stack, c) =>
                        ret.value[c[1]][c[2] + 1][c[3] + 1] = symbols[t]

(***************************************************************************)
(* C4.  categorize_images labels every pixel of a binary stack with the    *)
(* class of its periodic 3 x 3 neighbourhood: one label in 0..511 per      *)
(* pixel, and two pixels, of the same or of different images, get the same *)
(* label if and only if their neighbourhoods are equal cell by cell.       *)
(***************************************************************************)
C4_LabelsAreNeighbourhoodClasses ==
    call.op = "categorize_images" /\ call.neighborhood = "von neumann"
            /\ ret.status # "pending" =>
        /\ ret.status = "returned"
        /\ Len(ret.value) = Len(call.image_stack)
        /\ \A c \in Cells(call.image_stack) :
            ret.value[c[1]][c[2] + 1][c[3] + 1] \in 0..511
        /\ \A c, d \in Cells(call.image_stack) :
            (ret.value[c[1]][c[2] + 1][c[3] + 1] = ret.value[d[1]][d[2] + 1][d[3] + 1])
                <=> (NbhdOf(call.image_stack, c) = NbhdOf(call.image_stack, d))

\* a stack of two glider boards has been labelled: the same pixel of the
\* two images has the same label, two pixels of one image have different ones
C4_Witness ==
    /\ call.op = "categorize_images"
    /\ ret.status = "returned"
    /\ call.image_stack = <<make_glider(3).value, make_glider(3).value>>
    /\ ret.value[1][1][1] = ret.value[2][1][1]
    /\ ret.value[1][1][1] # ret.value[1][1][2]

(***************************************************************************)
(* C7.  In make_ca and categorize_images relu(conv + bias) is a one-hot    *)
(* encoding of the neighbourhood: of the 512 filters (kernel 1 on the      *)
(* pattern and -9 off it, bias 1 minus the number of ones of the pattern)  *)
(* exactly one has activation 1, the one whose pattern equals the periodic *)
(* 3 x 3 neighbourhood of the cell, and the other 511 have activation 0.   *)
(***************************************************************************)
C7_ActivationIsOneHot ==
    CaReturned =>
        IF call.op = "categorize_images"
        THEN /\ FiltersAsClaimed(cat_kernel, cat_biases, cat_patterns)
             /\ OneHot(call.image_stack, ret.activation_image, cat_patterns)
        ELSE /\ FiltersAsClaimed(ca_kernel, ca_biases, ca_patterns)
             /\ OneHot(call.image_stack, ret.activation_image, ca_patterns)

\* my_ca has run on a stack in which some cell has the glider as its
\* neighbourhood, and one filter is active there
C7_Witness ==
    /\ call.op = "make_ca"
    /\ ret.status = "returned"
    /\ \E c \in Cells(call.image_stack) :
        /\ NbhdOf(call.image_stack, c) = glider_center
        /\ \E k \in 1..512 :
            /\ ca_patterns[k] = glider_center
            /\ ret.activation_image[c[1]][c[2] + 1][c[3] + 1][k] = 1

(***************************************************************************)
(* C8.  A call of make_ca or categorize_images with a neighborhood other   *)
(* than "von neumann" is rejected by the assertion with the message        *)
(* "Specified neighborhood type not implemented", before any kernel, bias  *)
(* or output is computed.                                                  *)
(***************************************************************************)
C8_OtherNeighborhoodRejected ==
    /\ call.op \in {"categorize_images", "make_ca"}
    /\ call.neighborhood # "von neumann"
    /\ ret.status # "pending"
    => /\ ret.status = "raised"
       /\ ret.exc = AssertionMessage
       /\ ret.computed \cap {"kernel", "biases", "output"} = {}

====
